---- MODULE Spec2Model ----
(***************************************************************************)
(* Connection manager of the MySQL provider (mysql/provider.go).           *)
(*                                                                         *)
(* MySQLConfiguration.GetDbConn lazily establishes the shared *sql.DB by   *)
(* calling connectToMySQL, which runs sql.Open + db.Ping inside            *)
(* resource.RetryContext (terraform-plugin-sdk v2.6.1, go.mod) with the    *)
(* budget conf.ConnectRetryTimeout.  Several resource handlers call        *)
(* GetDbConn concurrently; the method takes no lock, so its reads and      *)
(* writes of the db field interleave.                                      *)
(*                                                                         *)
(* RetryContext runs two goroutines: the waiter (the select loop of        *)
(* StateChangeConf.WaitForStateContext: result channel, ctx.Done, timeout, *)
(* then a grace period during which it waits for the refresh goroutine)    *)
(* and the refresh goroutine (sleep with back-off, then the retry func).   *)
(* Time is a discrete clock.  Steps of the goroutines take no time; only   *)
(* a sleep on a timer and a Ping in flight let the clock advance.  The     *)
(* refresh goroutine is not waited for when the waiter gives up: it may    *)
(* finish its Ping, or run one more attempt, after GetDbConn has returned. *)
(***************************************************************************)
EXTENDS Integers, Sequences, FiniteSets, TLC

\* ------------------------------------------------------------- bounds
NumCallers == 2   \* concurrent resource handlers sharing one configuration
MaxCalls == 2     \* GetDbConn calls made in one run, over all callers
MaxTimeout == 2   \* largest ConnectRetryTimeout tried, in clock ticks
MaxStart == 0     \* latest clock value at which a call may start
MaxOps == 2       \* SetUserPassword operations run, over all callers
MaxNameLen == 2   \* longest user name tried, in characters

\* RetryContext's timing, in clock ticks (one tick = its MinTimeout).
MinWait == 1      \* MinTimeout: 500ms, the first back-off wait
MaxWait == 2      \* the cap on the back-off wait (10s), scaled
Grace == 1        \* refreshGracePeriod (30s), scaled

Callers == 1..NumCallers
MaxTime == MaxStart + MaxTimeout + Grace   \* the clock's last value
Nil == <<>>                                \* the nil *sql.DB
\* serverUpAt of a server that never becomes reachable: after the clock's end
Never == MaxTime + 1

VARIABLES
    now,                  \* the clock
    serverUpAt,           \* the clock value from which the server answers
    dsnOk,                \* sql.Open accepts the DSN of the configuration
    ConnectRetryTimeout,  \* MySQLConfiguration.ConnectRetryTimeout
    cdb,                  \* MySQLConfiguration.db (Nil or a handle)
    handles,              \* every *sql.DB sql.Open has returned, by handle
    call,                 \* per caller: the GetDbConn call in progress
    ret,                  \* per caller: what its last GetDbConn call returned
    exhausted,            \* some establishment has failed on its retry budget
    calls,                \* GetDbConn calls started so far
    orphans,              \* refresh goroutines whose RetryContext has returned
    resourceData,         \* d: the provider block given to providerConfigure
    meta,                 \* what providerConfigure returned to the host
    exchanges,            \* token requests sent to the identity service
    registered,           \* the dialers given to mysql.RegisterDialContext
    versionString,        \* what the server answers to the version query
    op,                   \* per caller: its SetUserPassword operation
    versionQueries,       \* the handles the version query was run on, in order
    execd,                \* the statements db.Exec has sent, in order
    ops                   \* SetUserPassword operations started so far

\* The state of provider configuration and of the resource handlers.
pvars == <<resourceData, meta, exchanges, registered>>
hvars == <<versionString, op, versionQueries, execd, ops>>

vars == <<now, serverUpAt, dsnOk, ConnectRetryTimeout, cdb, handles, call, ret,
          exhausted, calls, orphans, pvars, hvars>>

\* ------------------------------------------------------------- errors
\* An error value: msg is the prefix connectToMySQL adds, kind the
\* underlying failure, attempt the attempt that produced it (0: none).
NoErr == [msg |-> "", kind |-> "nil", attempt |-> 0]
OpenErr(n) == [msg |-> "", kind |-> "open", attempt |-> n]
PingErr(n) == [msg |-> "", kind |-> "ping", attempt |-> n]
CtxErr == [msg |-> "", kind |-> "context canceled", attempt |-> 0]
TimeoutErr == [msg |-> "", kind |-> "timeout while waiting", attempt |-> 0]

\* The text of an error: what a caller can tell errors apart by.  Two
\* attempts failing the same way give the same text.
Text(e) == <<e.msg, e.kind>>

Reachable == now >= serverUpAt

\* ------------------------------------------------- connectToMySQL, pure
\* resource.RetryableError(err) and resource.NonRetryableError(err).
RetryableError(e) == [retryable |-> TRUE, err |-> e]
NonRetryableError(e) == [retryable |-> FALSE, err |-> e]
NilRetryError == [retryable |-> FALSE, err |-> NoErr]

\* The retry func with a fatal Ping error (a plausible slip at line 295).
RetryFunc_PingFatal(openOk, pingOk, n) ==
    IF ~openOk THEN RetryableError(OpenErr(n))
    ELSE IF ~pingOk THEN NonRetryableError(PingErr(n))
    ELSE NilRetryError

\* The retry func with the test of the Ping error inverted.
RetryFunc_PingInverted(openOk, pingOk, n) ==
    IF ~openOk THEN RetryableError(OpenErr(n))
    ELSE IF pingOk THEN RetryableError(PingErr(n))
    ELSE NilRetryError

\* The retry func without the test of the Ping error (lines 294-296).
RetryFunc_IgnorePing(openOk, pingOk, n) ==
    IF ~openOk THEN RetryableError(OpenErr(n)) ELSE NilRetryError

\* The func passed to RetryContext: attempt n, given whether sql.Open and
\* db.Ping succeed.  Both failures are retryable; nil ends the retrying.
RetryFunc(openOk, pingOk, n) ==
    IF ~openOk THEN RetryableError(OpenErr(n))
    ELSE IF ~pingOk THEN RetryableError(PingErr(n))
    ELSE NilRetryError

\* The budget handed to RetryContext, as the clock value at which the
\* waiter's timeout fires, for an establishment started at `start`.
Deadline_Unbounded(start) == MaxTime + 1

Deadline(start) == start + ConnectRetryTimeout

\* The refresh goroutine's back-off: the wait doubles from the first
\* attempt on, is at least MinTimeout and at most the cap.
NextWait(w) ==
    IF 2 * w < MinWait THEN MinWait
    ELSE IF 2 * w > MaxWait THEN MaxWait
    ELSE 2 * w

\* What RetryContext returns when the waiter gave up with waitErr: the
\* last error an attempt returned takes precedence over waitErr.
RetryContextErr(resultErr, waitErr) ==
    IF resultErr = NoErr THEN waitErr ELSE resultErr

\* fmt.Errorf("could not connect to server: %s", retryError)
ConnectErr(e) ==
    [msg |-> "could not connect to server", kind |-> e.kind,
     attempt |-> e.attempt]

\* ---------------------------------------------- providerConfigure, pure
\* Lines 24-28.
cleartextPasswords == "cleartext"
nativePasswords == "native"
aadAuthentication == "aad_auth"

\* The aad_authentication block of the provider block: absent, or present
\* with its three required fields.  elem is the Go type of the element
\* the SDK keeps in the schema.Set for the block.
NoBlock ==
    [set |-> FALSE, elem |-> "", client_id |-> "", client_secret |-> "",
     tenant_id |-> ""]
CredentialsBlock ==
    [set |-> TRUE, elem |-> "map[string]interface {}",
     client_id |-> "6ba7b811-9dad-11d1-80b4-00c04fd430c8",
     client_secret |-> "secret",
     tenant_id |-> "6ba7b812-9dad-11d1-80b4-00c04fd430c8"]

\* The values tried for the provider block.  A URL is the sequence of
\* its parts: "p" stands for a port that is not a number.
Passwords == {"", "pw"}
Endpoints == {<<"/", "var/run/mysqld.sock">>, <<"db.example.com", ":", "3306">>}
ProxyArgs ==
    { <<>>,
      <<"socks5", "://", "host", ":", "1080">>,
      <<"socks5h", "://", "host", ":", "1080">>,
      <<"socks5", "://", "host">>,
      <<"socks5", "://", ":", "1080">>,
      <<"http", "://", "host", ":", "1080">>,
      <<"socks5", "://", "host", ":", "p">>,
      <<"://", "host", ":", "1080">>,
      <<"host", ":", "1080">>,
      <<"host">> }

\* The access token the identity service issues for CredentialsBlock.
IssuedToken == "bearer-token"

\* auth.ClientCredentialsConfig.ServicePrincipalToken (go-autorest/auth
\* v0.5.7, go.mod): it builds the OAuth configuration and an
\* adal.ServicePrincipalToken, which holds an empty token until Refresh or
\* EnsureFresh is called on it; it sends no request.  An empty client id
\* or secret is rejected, an empty tenant id is not.
ServicePrincipalToken(ccc) ==
    IF ccc.client_id = "" \/ ccc.client_secret = ""
    THEN [err |-> "parameter cannot be empty", AccessToken |-> "",
          requests |-> 0]
    ELSE [err |-> "", AccessToken |-> "", requests |-> 0]

\* What getAADToken returns when nothing is wrong.
NoToken == [token |-> "", err |-> "", requests |-> 0, panic |-> FALSE]

\* Lines 211-229: (token, err), and the token requests sent on the way.
\* Line 217 asserts that the element of the set is a *schema.ResourceData;
\* on an element of any other type the assertion panics.
getAADToken(dd, password) ==
    IF ~dd.aad_authentication.set
    THEN [NoToken EXCEPT !.err = "aad_authentication block is not set"]
    ELSE IF dd.aad_authentication.elem # "*schema.ResourceData"
    THEN [NoToken EXCEPT !.panic = TRUE]
    ELSE LET aadToken == ServicePrincipalToken(dd.aad_authentication)
         IN  IF aadToken.err # ""
             THEN [NoToken EXCEPT !.err = aadToken.err,
                                  !.requests = aadToken.requests]
             ELSE [NoToken EXCEPT !.token = aadToken.AccessToken,
                                  !.requests = aadToken.requests]

\* url.Parse on the parts of a URL: the scheme, and for "scheme://" the
\* host and port of the authority.  A URL that starts with a colon has no
\* scheme; a port must be a number.
NoURL == [err |-> "", Scheme |-> "", Host |-> "", Port |-> ""]
ParseURL(s) ==
    IF s = <<>> THEN NoURL
    ELSE IF s[1] \in {":", "://"}
    THEN [NoURL EXCEPT !.err = "missing protocol scheme"]
    ELSE IF Len(s) >= 2 /\ s[2] = "://"
    THEN LET rest == SubSeq(s, 3, Len(s))
             host == IF rest # <<>> /\ rest[1] # ":" THEN rest[1] ELSE ""
             tail == IF host = "" THEN rest ELSE Tail(rest)
             hasPort == Len(tail) >= 2 /\ tail[1] = ":"
         IN  IF hasPort /\ tail[2] \notin {"1080", "3306"}
             THEN [NoURL EXCEPT !.err = "invalid port"]
             ELSE [NoURL EXCEPT !.Scheme = s[1], !.Host = host,
                                !.Port = IF hasPort THEN tail[2] ELSE ""]
    ELSE IF Len(s) >= 2 /\ s[2] = ":"
    THEN [NoURL EXCEPT !.Scheme = s[1]]
    ELSE NoURL

\* The dialers.
NoDialer == [kind |-> "none", addr |-> <<>>]
FromEnvironment == [kind |-> "environment", addr |-> <<>>]

\* proxy.FromURL (golang.org/x/net/proxy): a SOCKS5 dialer for the
\* schemes socks5 and socks5h, the port defaulting to 1080; any other
\* scheme is unknown.
FromURL(u) ==
    IF u.Scheme \in {"socks5", "socks5h"}
    THEN [err |-> "",
          dialer |-> [kind |-> "socks5",
                      addr |-> <<u.Host,
                                 IF u.Port = "" THEN "1080" ELSE u.Port>>]]
    ELSE [err |-> "proxy: unknown scheme", dialer |-> NoDialer]

\* Lines 233-251.
makeDialer(dd) ==
    LET proxyFromEnv == FromEnvironment
        proxyArg == dd.proxy
    IN  IF Len(proxyArg) > 0
        THEN LET proxyURL == ParseURL(proxyArg)
             IN  IF proxyURL.err # ""
                 THEN [err |-> proxyURL.err, dialer |-> NoDialer]
                 ELSE FromURL(proxyURL)
        ELSE [err |-> "", dialer |-> proxyFromEnv]

\* Line 78: validation.IsURLWithScheme(validSchemes), the ValidateFunc of
\* "proxy", on the value v: the error it reports, "" for none.  The value
\* must parse as a URL, have a host part (host or port) and one of the
\* schemes.
IsURLWithScheme(validSchemes, v) ==
    LET u == ParseURL(v)
    IN  IF v = <<>> THEN "expected url to not be empty"
        ELSE IF u.err # "" THEN "expected a valid url"
        ELSE IF u.Host = "" /\ u.Port = "" THEN "expected to have a host"
        ELSE IF u.Scheme \in validSchemes THEN ""
        ELSE "expected to have a url with schema of socks5"

\* mysql.Config before providerConfigure has built it.
NoConfig ==
    [User |-> "", Passwd |-> "", Net |-> "", Addr |-> <<>>,
     AllowNativePasswords |-> FALSE, AllowCleartextPasswords |-> FALSE]

\* Lines 187-188 with the two flags exchanged.
AuthFlags_Swapped(authPlugin) ==
    [AllowNativePasswords |-> authPlugin = cleartextPasswords,
     AllowCleartextPasswords |-> authPlugin = nativePasswords]

\* Lines 187-188: the password-exchange flags of the connection
\* configuration.
AuthFlags(authPlugin) ==
    [AllowNativePasswords |-> authPlugin = nativePasswords,
     AllowCleartextPasswords |-> authPlugin = cleartextPasswords]

\* Lines 160-209: what providerConfigure returns for the provider block
\* dd (the configuration's Config, or an error), with the token requests
\* it has sent and the dialers it has registered; state "panic" when it
\* does not return.
providerConfigure(dd) ==
    LET endpoint == dd.endpoint
        proto == IF Len(endpoint) > 0 /\ endpoint[1] = "/"
                 THEN "unix" ELSE "tcp"
        aad == dd.authentication_plugin = aadAuthentication
        authPlugin == IF aad THEN cleartextPasswords
                      ELSE dd.authentication_plugin
        tok == IF aad THEN getAADToken(dd, dd.password) ELSE NoToken
        password == IF aad THEN tok.token ELSE dd.password
        conf == [User |-> dd.username, Passwd |-> password, Net |-> proto,
                 Addr |-> endpoint,
                 AllowNativePasswords |->
                     AuthFlags(authPlugin).AllowNativePasswords,
                 AllowCleartextPasswords |->
                     AuthFlags(authPlugin).AllowCleartextPasswords]
        dial == makeDialer(dd)
    IN  IF tok.panic
        THEN [state |-> "panic", err |-> "interface conversion",
              Config |-> NoConfig, requests |-> tok.requests,
              dialers |-> <<>>]
        ELSE IF tok.err # ""
        THEN [state |-> "error", err |-> tok.err, Config |-> NoConfig,
              requests |-> tok.requests, dialers |-> <<>>]
        ELSE IF dial.err # ""
        THEN [state |-> "error", err |-> dial.err, Config |-> NoConfig,
              requests |-> tok.requests, dialers |-> <<>>]
        ELSE [state |-> "ok", err |-> "", Config |-> conf,
              requests |-> tok.requests, dialers |-> <<dial.dialer>>]

\* Lines 71-79 and 156: what the provider returns to the host for the
\* provider block dd.  The SDK validates the block against the schema
\* first, "proxy" with its ValidateFunc if it is set, and calls
\* providerConfigure (the ConfigureFunc) only for a valid block.
Configure(dd) ==
    LET invalid == IF dd.proxy = <<>> THEN ""
                   ELSE IsURLWithScheme({"socks5"}, dd.proxy)
    IN  IF invalid # ""
        THEN [state |-> "invalid", err |-> invalid, Config |-> NoConfig,
              requests |-> 0, dialers |-> <<>>]
        ELSE providerConfigure(dd)

\* The provider block of a plain configuration with retry budget t.
PlainBlock(t) ==
    [endpoint |-> <<"db.example.com", ":", "3306">>, username |-> "root",
     password |-> "pw", authentication_plugin |-> nativePasswords,
     aad_authentication |-> NoBlock, proxy |-> <<>>,
     connect_retry_timeout_sec |-> t]

\* meta before providerConfigure has run.
NotConfigured == [state |-> "none", err |-> "", Config |-> NoConfig]

\* meta as the provider returns it for the provider block dd.
Configured(dd) ==
    LET r == Configure(dd)
    IN  [state |-> r.state, err |-> r.err, Config |-> r.Config]

\* ------------------------------------------------ SetUserPassword, pure
\* A version string is the sequence of its characters.  Ascii lists the
\* characters of version strings in the order of their codes.
Ascii ==
    <<"+", "-", ".", "0", "1", "2", "3", "4", "5", "6", "7", "8", "9",
      "A", "B", "C", "D", "E", "F", "G", "H", "I", "J", "K", "L", "M",
      "N", "O", "P", "Q", "R", "S", "T", "U", "V", "W", "X", "Y", "Z",
      "a", "b", "c", "d", "e", "f", "g", "h", "i", "j", "k", "l", "m",
      "n", "o", "p", "q", "r", "s", "t", "u", "v", "w", "x", "y", "z",
      "~">>
Ord(ch) == CHOOSE i \in 1..Len(Ascii) : Ascii[i] = ch
IsDigit(ch) == ch \in {Ascii[i] : i \in 4..13}
IsLetter(ch) == ch \in {Ascii[i] : i \in 14..65}

\* [0-9A-Za-z\-~], the characters of a prerelease or metadata part.
IsPartChar(ch) == IsDigit(ch) \/ IsLetter(ch) \/ ch \in {"-", "~"}

\* strconv.FormatInt(n, 10) and strconv.ParseInt(s, 10, 64) on digits.
RECURSIVE Itoa(_)
Itoa(n) ==
    IF n < 10 THEN <<Ascii[n + 4]>>
    ELSE Itoa(n \div 10) \o <<Ascii[(n % 10) + 4]>>
RECURSIVE Atoi(_)
Atoi(s) ==
    IF s = <<>> THEN 0
    ELSE 10 * Atoi(SubSeq(s, 1, Len(s) - 1)) + (Ord(s[Len(s)]) - 4)

\* strconv.ParseInt succeeds on s: digits, with an optional sign.
IsNumeral(s) ==
    LET digits == IF s # <<>> /\ s[1] \in {"+", "-"} THEN Tail(s) ELSE s
    IN  digits # <<>> /\ \A i \in 1..Len(digits) : IsDigit(digits[i])

\* The value strconv.ParseInt gives for s, 0 when it fails.
ParseInt(s) ==
    IF ~IsNumeral(s) THEN 0
    ELSE IF s[1] = "-" THEN 0 - Atoi(Tail(s))
    ELSE IF s[1] = "+" THEN Atoi(Tail(s))
    ELSE Atoi(s)

\* strings.Split(s, "."), from position i on; part is the part begun.
RECURSIVE Split(_, _, _)
Split(s, i, part) ==
    IF i > Len(s) THEN <<part>>
    ELSE IF s[i] = "." THEN <<part>> \o Split(s, i + 1, <<>>)
    ELSE Split(s, i + 1, Append(part, s[i]))

\* The end of the longest prefix [0-9]+(\.[0-9]+)* of s that starts at i
\* (i - 1 if there is none): the numbers of a version.
RECURSIVE NumbersEnd(_, _)
NumbersEnd(s, i) ==
    IF i > Len(s) \/ ~IsDigit(s[i]) THEN i - 1
    ELSE IF i < Len(s) /\ IsDigit(s[i + 1]) THEN NumbersEnd(s, i + 1)
    ELSE IF i + 1 < Len(s) /\ s[i + 1] = "." /\ IsDigit(s[i + 2])
    THEN NumbersEnd(s, i + 2)
    ELSE i

\* The position of the first "+" of s, or Len(s) + 1.
RECURSIVE Plus(_, _)
Plus(s, i) ==
    IF i > Len(s) \/ s[i] = "+" THEN i ELSE Plus(s, i + 1)

\* s matches [0-9A-Za-z\-~]+(\.[0-9A-Za-z\-~]+)*: parts separated by ".".
IsParts(s) ==
    LET parts == Split(s, 1, <<>>)
    IN  \A i \in 1..Len(parts) :
           /\ parts[i] # <<>>
           /\ \A j \in 1..Len(parts[i]) : IsPartChar(parts[i][j])

\* version.NewVersion (hashicorp/go-version v1.3.0, go.mod), which
\* matches the string against
\*   v?([0-9]+(\.[0-9]+)*?)
\*   (-([0-9]+[0-9A-Za-z\-~]*(\.[0-9A-Za-z\-~]+)*)
\*    |(-?([A-Za-z\-~]+[0-9A-Za-z\-~]*(\.[0-9A-Za-z\-~]+)*)))?
\*   (\+([0-9A-Za-z\-~]+(\.[0-9A-Za-z\-~]+)*))?
\* an optional "v", numbers separated by ".", an optional prerelease and
\* optional metadata; anything else is malformed.  The prerelease is kept
\* without the "-" that introduces it.  Fewer than three segments are
\* padded with zeros.
NoVersion == [err |-> "", segments |-> <<>>, pre |-> <<>>, metadata |-> <<>>]
NewVersion(v) ==
    LET body == IF v # <<>> /\ v[1] = "v" THEN Tail(v) ELSE v
        numEnd == NumbersEnd(body, 1)
        nums == SubSeq(body, 1, numEnd)
        rest == SubSeq(body, numEnd + 1, Len(body))
        plus == Plus(rest, 1)
        preText == SubSeq(rest, 1, plus - 1)
        metadata == SubSeq(rest, plus + 1, Len(rest))
        preOk == preText = <<>>
                    \/ /\ IsLetter(preText[1]) \/ preText[1] \in {"-", "~"}
                       /\ IsParts(preText)
        metaOk == plus > Len(rest) \/ IsParts(metadata)
        pre == IF Len(preText) >= 2 /\ preText[1] = "-" /\ preText[2] # "."
               THEN Tail(preText) ELSE preText
        given == Split(nums, 1, <<>>)
        segments == [i \in 1..(IF Len(given) < 3 THEN 3 ELSE Len(given)) |->
                        IF i <= Len(given) THEN Atoi(given[i]) ELSE 0]
    IN  IF nums = <<>> \/ ~preOk \/ ~metaOk
        THEN [NoVersion EXCEPT !.err = "Malformed version"]
        ELSE [NoVersion EXCEPT !.segments = segments, !.pre = pre,
                               !.metadata = metadata]

\* a > b for strings, character by character from position i on.
RECURSIVE StringGreater(_, _, _)
StringGreater(a, b, i) ==
    IF i > Len(a) THEN FALSE
    ELSE IF i > Len(b) THEN TRUE
    ELSE IF a[i] # b[i] THEN Ord(a[i]) > Ord(b[i])
    ELSE StringGreater(a, b, i + 1)

\* comparePart of go-version: two parts of prereleases.  A numeric part
\* comes before a non-numeric one; an empty part is decided by the other.
comparePart(preSelf, preOther) ==
    LET selfNumeric == IsNumeral(preSelf)
        otherNumeric == IsNumeral(preOther)
    IN  IF preSelf = preOther THEN 0
        ELSE IF preSelf = <<>> THEN (IF otherNumeric THEN -1 ELSE 1)
        ELSE IF preOther = <<>> THEN (IF selfNumeric THEN 1 ELSE -1)
        ELSE IF selfNumeric /\ ~otherNumeric THEN -1
        ELSE IF ~selfNumeric /\ otherNumeric THEN 1
        ELSE IF ~selfNumeric /\ ~otherNumeric
                  /\ StringGreater(preSelf, preOther, 1) THEN 1
        ELSE IF ParseInt(preSelf) > ParseInt(preOther) THEN 1
        ELSE -1

\* comparePrereleases of go-version: part by part, from part i on; a
\* missing part is the empty part.
RECURSIVE compareParts(_, _, _)
compareParts(a, b, i) ==
    LET x == IF i <= Len(a) THEN a[i] ELSE <<>>
        y == IF i <= Len(b) THEN b[i] ELSE <<>>
    IN  IF i > Len(a) /\ i > Len(b) THEN 0
        ELSE IF comparePart(x, y) # 0 THEN comparePart(x, y)
        ELSE compareParts(a, b, i + 1)
comparePrereleases(v, other) ==
    IF v = other THEN 0
    ELSE compareParts(Split(v, 1, <<>>), Split(other, 1, <<>>), 1)

\* The jagged comparison of Version.Compare, from position i on: where one
\* version has no segment left, the other is greater unless its remaining
\* segments are all zero.
RECURSIVE CompareSegments(_, _, _)
CompareSegments(a, b, i) ==
    IF i > Len(a) /\ i > Len(b) THEN 0
    ELSE IF i > Len(a)
    THEN (IF \A j \in i..Len(b) : b[j] = 0 THEN 0 ELSE -1)
    ELSE IF i > Len(b)
    THEN (IF \A j \in i..Len(a) : a[j] = 0 THEN 0 ELSE 1)
    ELSE IF a[i] < b[i] THEN -1
    ELSE IF a[i] > b[i] THEN 1
    ELSE CompareSegments(a, b, i + 1)

\* Version.Compare: equal strings are equal; with identical segments the
\* prereleases decide, a prerelease coming before the release; else the
\* segments decide.
Compare(a, b) ==
    IF a.segments = b.segments /\ a.pre = b.pre /\ a.metadata = b.metadata
    THEN 0
    ELSE IF a.segments = b.segments
    THEN IF a.pre = <<>> /\ b.pre = <<>> THEN 0
         ELSE IF a.pre = <<>> THEN 1
         ELSE IF b.pre = <<>> THEN -1
         ELSE comparePrereleases(a.pre, b.pre)
    ELSE CompareSegments(a.segments, b.segments, 1)

\* Version.LessThan with <= for <.
LessThan_OrEqual(a, b) == Compare(a, b) <= 0

\* Version.LessThan.
LessThan(a, b) == Compare(a, b) < 0

\* Line 57: the version from which ALTER USER is used.
Threshold == <<"5", ".", "7", ".", "6">>

\* Lines 59-69: fmt.Sprintf of the statement for the server version ver.
\* The statement is the sequence of its parts, the characters of the
\* interpolated values among them.
LegacyStmt(user, host, password) ==
    <<"SET PASSWORD FOR ", "'">> \o user \o <<"'", "@", "'">> \o host
        \o <<"'", " = PASSWORD(", "'">> \o password \o <<"'", ")">>
ModernStmt(user, host, password) ==
    <<"ALTER USER ", "'">> \o user \o <<"'", "@", "'">> \o host
        \o <<"'", " IDENTIFIED BY ", "'">> \o password \o <<"'">>
StmtSQL(ver, user, host, password) ==
    IF LessThan(ver, NewVersion(Threshold))
    THEN LegacyStmt(user, host, password)
    ELSE ModernStmt(user, host, password)

\* The backtick character (written out, as the character itself ends a
\* string here).
Backtick == "<backtick>"

\* Lines 231 and 253-255: identQuoteReplacer and quoteIdentifier, which
\* SetUserPassword does not call.
RECURSIVE identQuoteReplacer(_)
identQuoteReplacer(in) ==
    IF in = <<>> THEN <<>>
    ELSE (IF Head(in) = Backtick THEN <<Backtick, Backtick>>
          ELSE <<Head(in)>>) \o identQuoteReplacer(Tail(in))
quoteIdentifier(in) == <<Backtick>> \o identQuoteReplacer(in) \o <<Backtick>>

\* --------------------------------------------------------------- state
\* A caller outside GetDbConn.  pc is the caller's place in GetDbConn and
\* connectToMySQL, rf the refresh goroutine's place; db and resultErr are
\* connectToMySQL's db and RetryContext's resultErr.  cached, ops, attempts,
\* completed and probedUp record the call's history for the properties.
IdleCall ==
    [pc |-> "idle", rf |-> "none", start |-> 0, graceEnd |-> 0,
     wakeAt |-> 0, wait |-> 0, db |-> Nil, resultErr |-> NoErr,
     cached |-> Nil, ops |-> 0, attempts |-> 0,
     completed |-> 0, probedUp |-> FALSE]

\* What a GetDbConn call returned: (db, err), and the way it ended.
NoRet == [cause |-> "none", db |-> Nil, err |-> NoErr]

NewHandle == [pinged |-> FALSE, closed |-> FALSE, lifetime |-> 0, maxOpen |-> 0]

\* The handle the next successful sql.Open of caller c returns: handles
\* are named by the caller that opened them and numbered per caller.
FreshHandle(c) == <<c, Cardinality({h \in DOMAIN handles : h[1] = c}) + 1>>

LiveHandles == {h \in DOMAIN handles : ~handles[h].closed}

\* A handler outside SetUserPassword.  pc is its place in the function;
\* db, password, serverVersion and stmtSQL are the function's variables;
\* queries and execs count its version queries and db.Exec calls, and
\* result is what the function last returned.
IdleOp ==
    [pc |-> "idle", db |-> Nil, user |-> <<>>, host |-> <<>>,
     password |-> <<>>, serverVersion |-> <<>>, stmtSQL |-> <<>>,
     queries |-> 0, execs |-> 0, result |-> "none", id |-> <<>>]

\* No refresh goroutine has outlived its RetryContext: sleep counts, by
\* caller, the goroutines left behind with their timer fired, ping holds
\* the handles whose Ping a goroutine left behind is inside.
NoOrphans == [sleep |-> [c \in Callers |-> 0], ping |-> {}]

\* No SetUserPassword operation has run.
HandlersIdle ==
    /\ op = [c \in Callers |-> IdleOp]
    /\ versionQueries = <<>>
    /\ execd = <<>>
    /\ ops = 0

Init ==
    /\ now = 0
    /\ serverUpAt \in {Never} \cup (0..MaxTimeout)
    /\ dsnOk \in (IF serverUpAt = Never THEN {TRUE, FALSE} ELSE {TRUE})
    /\ ConnectRetryTimeout \in 0..MaxTimeout
    /\ cdb = Nil
    /\ versionString = <<"8", ".", "0", ".", "2", "1">>
    /\ handles = [h \in {} |-> NewHandle]
    /\ call = [c \in Callers |-> IdleCall]
    /\ ret = [c \in Callers |-> NoRet]
    /\ exhausted = FALSE
    /\ calls = 0
    /\ orphans = NoOrphans
    /\ resourceData = PlainBlock(ConnectRetryTimeout)
    /\ meta = Configured(resourceData)
    /\ exchanges = 0
    /\ registered = Configure(resourceData).dialers
    /\ HandlersIdle

\* ----------------------------------------------------------- GetDbConn
\* Line 39: caller c enters GetDbConn and tests c.db == nil.  With no
\* handle cached it calls connectToMySQL, whose RetryContext starts the
\* refresh goroutine (first attempt without a wait) and the timeout.
GetDbConn_Enter(c) ==
    /\ call[c].pc = "idle"
    /\ calls < MaxCalls
    /\ now <= MaxStart
    /\ calls' = calls + 1
    /\ ret' = [ret EXCEPT ![c] = NoRet]
    /\ IF cdb = Nil
       THEN call' = [call EXCEPT ![c] =
                       [IdleCall EXCEPT !.pc = "wait", !.rf = "sleep",
                                        !.start = now, !.wakeAt = now]]
       ELSE call' = [call EXCEPT ![c] =
                       [IdleCall EXCEPT !.pc = "ret", !.start = now,
                                        !.cached = cdb]]
    /\ UNCHANGED <<orphans, pvars, hvars, now, serverUpAt, dsnOk,
                   ConnectRetryTimeout, cdb, handles, exhausted>>

\* The refresh goroutine of a call (its record cl) after an attempt
\* returned rerr.  RetryContext's Refresh stores the error in resultErr.
\* On nil the goroutine delivers the Done result.  On a retryable error it
\* loops: it returns there if the waiter has closed cancelCh, else sleeps
\* for the next back-off wait.  On any other error it returns.
AfterAttempt(cl, rerr) ==
    LET w == NextWait(cl.wait)
        again == rerr.retryable /\ cl.pc = "wait"
    IN  IF rerr = NilRetryError
        THEN [cl EXCEPT !.resultErr = NoErr, !.completed = @ + 1,
                        !.rf = "done"]
        ELSE [cl EXCEPT !.resultErr = rerr.err,
                        !.completed = @ + 1,
                        !.rf = IF again THEN "sleep" ELSE "stopped",
                        !.wait = IF again THEN w ELSE @,
                        !.wakeAt = IF again THEN now + w ELSE @]

\* handles with handle h added or replaced.
WithHandle(h, rec) ==
    [x \in DOMAIN handles \cup {h} |-> IF x = h THEN rec ELSE handles[x]]

\* Lines 288-293: the refresh goroutine's timer has fired and it runs the
\* retry func.  sql.Open fails (lines 289-290, a DSN the driver rejects)
\* and the func returns, or it returns a new handle, on which db.Ping is
\* called: the Ping is in flight, whatever the server's state.
AttemptStart(c) ==
    /\ call[c].pc \in {"wait", "grace"}
    /\ call[c].rf = "sleep"
    /\ now >= call[c].wakeAt
    /\ LET n == call[c].attempts + 1
           h == FreshHandle(c)
           cl == [call[c] EXCEPT !.attempts = n,
                                 !.ops = @ + (IF dsnOk THEN 2 ELSE 1),
                                 !.db = IF dsnOk THEN h ELSE Nil]
       IN  IF ~dsnOk
           THEN /\ call' = [call EXCEPT ![c] =
                              AfterAttempt(cl, RetryFunc(FALSE, FALSE, n))]
                /\ UNCHANGED handles
           ELSE /\ call' = [call EXCEPT ![c] = [cl EXCEPT !.rf = "ping"]]
                /\ handles' = WithHandle(h, NewHandle)
    /\ UNCHANGED <<orphans, pvars, hvars, now, serverUpAt, dsnOk,
                   ConnectRetryTimeout, cdb, ret, exhausted, calls>>

\* Lines 293-298: the Ping in flight returns, at once or after any time.
\* It returns nil if the server answers when it completes, and the retry
\* func returns nil; else it returns its error (lines 294-296) and the
\* handle of the failed Ping is not closed.
PingEnd(c) ==
    /\ call[c].pc \in {"wait", "grace"}
    /\ call[c].rf = "ping"
    /\ LET cl == [call[c] EXCEPT
                    !.probedUp = @ \/ (Reachable /\ call[c].pc = "wait"
                                         /\ now < Deadline(call[c].start))]
       IN  call' = [call EXCEPT ![c] =
                      AfterAttempt(cl, RetryFunc(TRUE, Reachable,
                                                 call[c].attempts))]
    /\ handles' = [handles EXCEPT ![call[c].db].pinged = Reachable]
    /\ UNCHANGED <<orphans, pvars, hvars, now, serverUpAt, dsnOk,
                   ConnectRetryTimeout, cdb, ret, exhausted, calls>>

\* The waiter is in its grace period and the refresh goroutine's timer is
\* due: its select may take the closed cancelCh, and it returns.
RefreshCancelled(c) ==
    /\ call[c].pc = "grace"
    /\ call[c].rf = "sleep"
    /\ call' = [call EXCEPT ![c].rf = "stopped"]
    /\ UNCHANGED <<orphans, pvars, hvars, now, serverUpAt, dsnOk,
                   ConnectRetryTimeout, cdb, handles, ret, exhausted, calls>>

\* connectToMySQL without its line 305: the handle is returned with
\* SetMaxOpenConns never called on it.
ConnectOk_NoMaxOpen(c) ==
    /\ call[c].pc \in {"wait", "grace"}
    /\ call[c].rf = "done"
    /\ handles' = [handles EXCEPT ![call[c].db].lifetime = @ + 1]
    /\ call' = [call EXCEPT ![c] = [@ EXCEPT !.pc = "assign", !.rf = "none",
                                             !.ops = @ + 2]]
    /\ UNCHANGED <<orphans, pvars, hvars, now, serverUpAt, dsnOk,
                   ConnectRetryTimeout, cdb, ret, exhausted, calls>>

\* Lines 301-306 and 41: the waiter receives the Done result, RetryContext
\* returns nil, connectToMySQL tunes the pool of its handle and returns it.
ConnectOk(c) ==
    /\ call[c].pc \in {"wait", "grace"}
    /\ call[c].rf = "done"
    /\ handles' = [handles EXCEPT ![call[c].db].lifetime = @ + 1,
                                  ![call[c].db].maxOpen = @ + 1]
    /\ call' = [call EXCEPT ![c] = [@ EXCEPT !.pc = "assign", !.rf = "none",
                                             !.ops = @ + 2]]
    /\ UNCHANGED <<orphans, pvars, hvars, now, serverUpAt, dsnOk,
                   ConnectRetryTimeout, cdb, ret, exhausted, calls>>

\* orphans with the refresh goroutine a call of caller c (its record cl)
\* leaves behind when its waiter returns an error: one inside Ping goes on
\* with that Ping, one whose timer has fired may already be past its
\* select on cancelCh.
LeftBehind(c, cl) ==
    IF cl.rf = "ping" THEN [orphans EXCEPT !.ping = @ \cup {cl.db}]
    ELSE IF cl.rf = "sleep" /\ now >= cl.wakeAt
    THEN [orphans EXCEPT !.sleep[c] = @ + 1]
    ELSE orphans

\* Lines 301-303 and 41-43: RetryContext returns an error, connectToMySQL
\* wraps it and GetDbConn returns (nil, err) without touching c.db.  The
\* refresh goroutine is not waited for.
ConnectFail(c, cause, waitErr) ==
    /\ ret' = [ret EXCEPT ![c] =
                 [cause |-> cause, db |-> Nil,
                  err |-> ConnectErr(RetryContextErr(call[c].resultErr,
                                                     waitErr))]]
    /\ call' = [call EXCEPT ![c] = IdleCall]
    /\ exhausted' = (exhausted \/ cause \in {"timeout", "abandon"})
    /\ orphans' = LeftBehind(c, call[c])
    /\ UNCHANGED <<pvars, hvars, now, serverUpAt, dsnOk, ConnectRetryTimeout,
                   cdb, handles, calls>>

\* The host cancels the context of caller c's call and the waiter takes
\* ctx.Done: before the timeout it returns ctx.Err() ("cancel"), in the
\* grace period it abandons the grace period with the TimeoutError
\* ("abandon").  (A cancellation the waiter does not get to see before
\* another channel wins its select is a cancellation that comes later.)
WaitCtxDone(c) ==
    /\ call[c].pc \in {"wait", "grace"}
    /\ ConnectFail(c, IF call[c].pc = "wait" THEN "cancel" ELSE "abandon",
                   IF call[c].pc = "wait" THEN CtxErr ELSE TimeoutErr)

\* The waiter's timeout fires: it closes cancelCh and starts the grace
\* period, waiting for the refresh goroutine to return.  A goroutine
\* asleep with its timer not yet due returns at once.
WaitTimeout(c) ==
    /\ call[c].pc = "wait"
    /\ now >= Deadline(call[c].start)
    /\ call' = [call EXCEPT ![c] =
                  [@ EXCEPT !.pc = "grace", !.graceEnd = now + Grace,
                            !.rf = IF @ = "sleep" /\ now < call[c].wakeAt
                                   THEN "stopped" ELSE @]]
    /\ UNCHANGED <<orphans, pvars, hvars, now, serverUpAt, dsnOk,
                   ConnectRetryTimeout, cdb, handles, ret, exhausted, calls>>

\* The grace period ends with the refresh goroutine still inside Ping.
WaitGraceExpired(c) ==
    /\ call[c].pc = "grace"
    /\ now >= call[c].graceEnd
    /\ ConnectFail(c, "timeout", TimeoutErr)

\* The result channel is closed (the refresh goroutine has returned)
\* without a Done result: in the grace period the waiter returns the
\* TimeoutError, before it the last result's error.
WaitClosed(c) ==
    /\ call[c].pc \in {"wait", "grace"}
    /\ call[c].rf = "stopped"
    /\ ConnectFail(c, IF call[c].pc = "grace" THEN "timeout" ELSE "quit",
                   IF call[c].pc = "grace" THEN TimeoutErr
                   ELSE call[c].resultErr)

\* Line 44: c.db = db.
GetDbConn_Assign(c) ==
    /\ call[c].pc = "assign"
    /\ cdb' = call[c].db
    /\ call' = [call EXCEPT ![c].pc = "ret"]
    /\ UNCHANGED <<orphans, pvars, hvars, now, serverUpAt, dsnOk,
                   ConnectRetryTimeout, handles, ret, exhausted, calls>>

\* Line 46: return c.db, nil.
GetDbConn_Return(c) ==
    /\ call[c].pc = "ret"
    /\ ret' = [ret EXCEPT ![c] = [cause |-> "ok", db |-> cdb, err |-> NoErr]]
    /\ call' = [call EXCEPT ![c] = IdleCall]
    /\ UNCHANGED <<orphans, pvars, hvars, now, serverUpAt, dsnOk,
                   ConnectRetryTimeout, cdb, handles, exhausted, calls>>

\* ------------------------------------------------- goroutines left behind
\* Lines 288-293, after RetryContext has returned: a goroutine a call of
\* caller c left behind with its timer fired runs the retry func once
\* more.  sql.Open returns a new handle and Ping is called on it; with an
\* Open error the goroutine finds cancelCh closed and returns.
OrphanAttempt(c) ==
    /\ orphans.sleep[c] > 0
    /\ LET h == FreshHandle(c)
       IN  IF dsnOk
           THEN /\ handles' = WithHandle(h, NewHandle)
                /\ orphans' = [orphans EXCEPT !.sleep[c] = @ - 1,
                                              !.ping = @ \cup {h}]
           ELSE /\ orphans' = [orphans EXCEPT !.sleep[c] = @ - 1]
                /\ UNCHANGED handles
    /\ UNCHANGED <<pvars, hvars, now, serverUpAt, dsnOk, ConnectRetryTimeout,
                   cdb, call, ret, exhausted, calls>>

\* A goroutine left behind with its timer fired takes the closed cancelCh
\* and returns.
OrphanCancelled(c) ==
    /\ orphans.sleep[c] > 0
    /\ orphans' = [orphans EXCEPT !.sleep[c] = @ - 1]
    /\ UNCHANGED <<pvars, hvars, now, serverUpAt, dsnOk, ConnectRetryTimeout,
                   cdb, handles, call, ret, exhausted, calls>>

\* Lines 293-298, after RetryContext has returned: the Ping on handle h of
\* a goroutine left behind returns; nobody receives the result and the
\* goroutine returns on the closed cancelCh.  The handle stays open.
OrphanPingEnd(h) ==
    /\ h \in orphans.ping
    /\ handles' = [handles EXCEPT ![h].pinged = Reachable]
    /\ orphans' = [orphans EXCEPT !.ping = @ \ {h}]
    /\ UNCHANGED <<pvars, hvars, now, serverUpAt, dsnOk, ConnectRetryTimeout,
                   cdb, call, ret, exhausted, calls>>

OrphanStep(c) ==
    \/ OrphanAttempt(c)
    \/ OrphanCancelled(c)
    \/ \E h \in orphans.ping : h[1] = c /\ OrphanPingEnd(h)

\* ---------------------------------------------------------------- time
\* Caller c or its goroutines have a step to take that needs no waiting.
Urgent(c) ==
    LET cl == call[c]
    IN  \/ cl.pc \in {"assign", "ret"}
        \/ /\ cl.pc \in {"wait", "grace"}
           /\ \/ cl.rf \in {"done", "stopped"}
              \/ cl.rf = "sleep" /\ now >= cl.wakeAt
        \/ cl.pc = "wait" /\ now >= Deadline(cl.start)
        \/ cl.pc = "grace" /\ (now >= cl.graceEnd \/ cl.rf = "sleep")

\* The clock advances while every goroutine is sleeping or inside a Ping.
Tick ==
    /\ now < MaxTime
    /\ \A c \in Callers : ~Urgent(c)
    /\ \A c \in Callers : orphans.sleep[c] = 0
    /\ now' = now + 1
    /\ UNCHANGED <<orphans, pvars, hvars, serverUpAt, dsnOk,
                   ConnectRetryTimeout, cdb, handles, call, ret, exhausted,
                   calls>>

Step(c) ==
    \/ GetDbConn_Enter(c)
    \/ AttemptStart(c)
    \/ PingEnd(c)
    \/ RefreshCancelled(c)
    \/ ConnectOk(c)
    \/ WaitCtxDone(c)
    \/ WaitTimeout(c)
    \/ WaitGraceExpired(c)
    \/ WaitClosed(c)
    \/ GetDbConn_Assign(c)
    \/ GetDbConn_Return(c)

Next ==
    \/ Tick
    \/ \E c \in Callers : Step(c)
    \/ \E c \in Callers : OrphanStep(c)

Spec == Init /\ [][Next]_vars

\* Every goroutine that can run does run, and the clock advances.  The
\* host's steps (a new call, a cancellation) are under no obligation.
Progress(c) ==
    \/ AttemptStart(c)
    \/ PingEnd(c)
    \/ RefreshCancelled(c)
    \/ ConnectOk(c)
    \/ WaitTimeout(c)
    \/ WaitGraceExpired(c)
    \/ WaitClosed(c)
    \/ GetDbConn_Assign(c)
    \/ GetDbConn_Return(c)

FairSpec ==
    /\ Spec
    /\ WF_vars(Tick)
    /\ \A c \in Callers : WF_vars(Progress(c))
    /\ \A c \in Callers : WF_vars(OrphanStep(c))

\* ------------------------------------------- provider configuration
\* The provider blocks tried.
ProviderBlocks ==
    {[PlainBlock(MaxTimeout) EXCEPT !.endpoint = e, !.password = pw,
                                    !.authentication_plugin = a,
                                    !.aad_authentication = b, !.proxy = x] :
        e \in Endpoints, pw \in Passwords,
        a \in {cleartextPasswords, nativePasswords, aadAuthentication},
        b \in {NoBlock, CredentialsBlock}, x \in ProxyArgs}

\* The process before the host has configured the provider; the server
\* is reachable.
ConfigInit ==
    /\ now = 0
    /\ serverUpAt = 0
    /\ dsnOk = TRUE
    /\ ConnectRetryTimeout = 0
    /\ cdb = Nil
    /\ versionString = <<"8", ".", "0", ".", "2", "1">>
    /\ handles = [h \in {} |-> NewHandle]
    /\ call = [c \in Callers |-> IdleCall]
    /\ ret = [c \in Callers |-> NoRet]
    /\ exhausted = FALSE
    /\ calls = 0
    /\ orphans = NoOrphans
    /\ resourceData \in ProviderBlocks
    /\ meta = NotConfigured
    /\ exchanges = 0
    /\ registered = <<>>
    /\ HandlersIdle

\* Lines 71-79 and 156-209: the host configures the provider, once.  A
\* block the schema refuses never reaches providerConfigure.  On success
\* the dialer is registered (line 196) and the MySQLConfiguration is built
\* with the retry budget and a nil db (lines 200-206).
ProviderConfigure ==
    /\ meta.state = "none"
    /\ LET r == Configure(resourceData)
       IN  /\ meta' = Configured(resourceData)
           /\ exchanges' = exchanges + r.requests
           /\ registered' = registered \o r.dialers
           /\ ConnectRetryTimeout' =
                 IF r.state = "ok"
                 THEN resourceData.connect_retry_timeout_sec
                 ELSE ConnectRetryTimeout
    /\ UNCHANGED <<orphans, hvars, resourceData, now, serverUpAt, dsnOk, cdb,
                   handles, call, ret, exhausted, calls>>

\* What the handlers do with the configuration afterwards, against a
\* reachable server.
Connect(c) ==
    \/ GetDbConn_Enter(c)
    \/ AttemptStart(c)
    \/ PingEnd(c)
    \/ ConnectOk(c)
    \/ GetDbConn_Assign(c)
    \/ GetDbConn_Return(c)

ConfigNext ==
    \/ ProviderConfigure
    \/ meta.state = "ok" /\ \E c \in Callers : Connect(c)

ConfigSpec == ConfigInit /\ [][ConfigNext]_vars

\* ----------------------------------------------------- SetUserPassword
\* The characters of the user and host names tried, and the names.
Alphabet == {"a", "'", Backtick}
RECURSIVE Strings(_)
Strings(n) ==
    IF n = 0 THEN {<<>>}
    ELSE Strings(n - 1)
            \cup {Append(w, x) : w \in Strings(n - 1), x \in Alphabet}
Users == Strings(MaxNameLen) \ {<<>>}
Hosts == Strings(1) \ {<<>>}

\* The passwords uuid.NewV4().String() returns.
Uuids == {<<"6ba7b810", "-", "9dad">>}

\* The versions the server may report: major.minor.patch over Segments,
\* and strings of other shapes.
Segments == {0, 5, 6, 7, 8, 21}
Triples == {<<x, y, z>> : x \in Segments, y \in Segments, z \in Segments}
FormatVersion(t) ==
    Itoa(t[1]) \o <<".">> \o Itoa(t[2]) \o <<".">> \o Itoa(t[3])
MalformedVersions ==
    {<<>>, <<"M", "a", "r", "i", "a", "D", "B">>, <<"5", ".", "7", ".">>,
     <<"5", ".", "7", ".", "6", ".", "r", "c">>}
VersionStrings ==
    {FormatVersion(t) : t \in Triples}
       \cup MalformedVersions
       \cup {<<"5", ".", "7">>,
             <<"5", ".", "7", ".", "6", "-", "l", "o", "g">>,
             <<"5", ".", "7", ".", "6", "l", "o", "g">>,
             <<"5", ".", "7", ".", "6", "+", "m">>,
             <<"5", ".", "7", ".", "5", "-">>,
             <<"5", ".", "6", ".", "2", "1", "-", "8", ".", "1">>,
             <<"5", ".", "7", ".", "6", ".", "0", "-", "l", "o", "g">>,
             <<"5", ".", "7", ".", "6", ".", "1">>,
             <<"v", "8", ".", "0", ".", "2", "1">>}

\* The server version and the resource (user, host) of a run.  For the
\* statements: every version with a plain resource, and every resource
\* on either side of the threshold.  For concurrent handlers: a plain
\* resource with a few versions, malformed ones among them.
PlainCase(v) == [v |-> v, user |-> <<"a">>, host |-> <<"a">>]
StatementCases ==
    {PlainCase(v) : v \in VersionStrings}
       \cup {[v |-> FormatVersion(t), user |-> u, host |-> h] :
               t \in {<<5, 7, 5>>, <<5, 7, 6>>}, u \in Users, h \in Hosts}
HandlerCases ==
    {PlainCase(v) : v \in MalformedVersions}
       \cup {PlainCase(FormatVersion(t)) :
               t \in {<<5, 7, 5>>, <<5, 7, 6>>, <<8, 0, 21>>}}

\* The handle caller 1 has established and cached.
OpenHandle == <<1, 1>>

\* The provider is configured and its connection Open: caller 1's
\* GetDbConn has opened, pinged, tuned, cached and returned OpenHandle.
\* The server version and the resource are one of cases.
OpenInit(cases) ==
    /\ now = 0
    /\ serverUpAt = 0
    /\ dsnOk = TRUE
    /\ ConnectRetryTimeout = MaxTimeout
    /\ resourceData = PlainBlock(ConnectRetryTimeout)
    /\ meta = Configured(resourceData)
    /\ exchanges = 0
    /\ registered = Configure(resourceData).dialers
    /\ cdb = OpenHandle
    /\ handles = (OpenHandle :> [pinged |-> TRUE, closed |-> FALSE,
                                 lifetime |-> 1, maxOpen |-> 1])
    /\ call = [c \in Callers |-> IdleCall]
    /\ ret = [c \in Callers |->
                IF c = 1 THEN [cause |-> "ok", db |-> OpenHandle, err |-> NoErr]
                ELSE NoRet]
    /\ exhausted = FALSE
    /\ calls = 1
    /\ orphans = NoOrphans
    /\ \E hc \in cases :
          /\ versionString = hc.v
          /\ op = [c \in Callers |->
                     [IdleOp EXCEPT !.user = hc.user, !.host = hc.host]]
    /\ versionQueries = <<>>
    /\ execd = <<>>
    /\ ops = 0

HandlerInit == OpenInit(HandlerCases)
StatementInit == OpenInit(StatementCases)

\* The errors SetUserPassword returns.
VersionError(cause) == "could not determine server version: " \o cause

\* Lines 38-50: caller c's SetUserPassword starts.  With the connection
\* Open its GetDbConn call returns the cached handle (lines 39 and 46)
\* and changes nothing.  A password is generated and stored in the
\* resource; uuid.NewV4 may fail.
SUP_Begin(c, uuidOk) ==
    /\ op[c].pc = "idle"
    /\ call[c].pc = "idle"
    /\ meta.state = "ok"
    /\ cdb # Nil
    /\ ops < MaxOps
    /\ ops' = ops + 1
    /\ \E u \in Uuids :
          op' = [op EXCEPT ![c] =
                   IF uuidOk
                   THEN [IdleOp EXCEPT !.pc = "version", !.db = cdb,
                                       !.user = op[c].user,
                                       !.host = op[c].host, !.password = u]
                   ELSE [IdleOp EXCEPT !.db = cdb, !.user = op[c].user,
                                       !.host = op[c].host,
                                       !.result = "uuid error"]]
    /\ UNCHANGED <<orphans, pvars, versionString, versionQueries, execd, now,
                   serverUpAt, dsnOk, ConnectRetryTimeout, cdb, handles,
                   call, ret, exhausted, calls>>

\* SetUserPassword going on to its statement when the version could not
\* be determined (lines 54-56 left out; the version is then empty).
SUP_Version_IgnoreError(c, queryOk) ==
    /\ op[c].pc = "version"
    /\ versionQueries' = Append(versionQueries, op[c].db)
    /\ LET ver == NewVersion(versionString)
       IN  op' = [op EXCEPT ![c] =
                    [@ EXCEPT !.queries = @ + 1, !.pc = "exec",
                              !.serverVersion =
                                  IF queryOk /\ ver.err = "" THEN ver
                                  ELSE NoVersion]]
    /\ UNCHANGED <<orphans, pvars, versionString, execd, ops, now, serverUpAt,
                   dsnOk, ConnectRetryTimeout, cdb, handles, call, ret,
                   exhausted, calls>>

\* SetUserPassword dropping the cached handle when the version could not
\* be determined.
SUP_Version_DropHandle(c, queryOk) ==
    /\ op[c].pc = "version"
    /\ versionQueries' = Append(versionQueries, op[c].db)
    /\ LET ver == NewVersion(versionString)
           o == [op[c] EXCEPT !.queries = @ + 1]
           failed == ~queryOk \/ ver.err # ""
       IN  /\ op' = [op EXCEPT ![c] =
                       IF failed
                       THEN [o EXCEPT !.pc = "idle",
                                      !.result = VersionError("query failed")]
                       ELSE [o EXCEPT !.pc = "exec", !.serverVersion = ver]]
           /\ cdb' = IF failed THEN Nil ELSE cdb
    /\ UNCHANGED <<orphans, pvars, versionString, execd, ops, now, serverUpAt,
                   dsnOk, ConnectRetryTimeout, handles, call, ret, exhausted,
                   calls>>

\* Lines 53-56 and 257-265: serverVersion runs the version query on the
\* handle and parses the answer.  A failed query and a malformed answer
\* end the operation with an error.
SUP_Version(c, queryOk) ==
    /\ op[c].pc = "version"
    /\ versionQueries' = Append(versionQueries, op[c].db)
    /\ LET ver == NewVersion(versionString)
           o == [op[c] EXCEPT !.queries = @ + 1]
       IN  op' = [op EXCEPT ![c] =
                    IF ~queryOk
                    THEN [o EXCEPT !.pc = "idle",
                                   !.result = VersionError("query failed")]
                    ELSE IF ver.err # ""
                    THEN [o EXCEPT !.pc = "idle",
                                   !.result = VersionError(ver.err)]
                    ELSE [o EXCEPT !.pc = "exec", !.serverVersion = ver]]
    /\ UNCHANGED <<orphans, pvars, versionString, execd, ops, now, serverUpAt,
                   dsnOk, ConnectRetryTimeout, cdb, handles, call, ret,
                   exhausted, calls>>

\* Lines 57-80: the statement is built for the server version and sent
\* with db.Exec; on success the resource id is set to user@host.
SUP_Exec(c, execOk) ==
    /\ op[c].pc = "exec"
    /\ LET stmtSQL == StmtSQL(op[c].serverVersion, op[c].user, op[c].host,
                              op[c].password)
           o == [op[c] EXCEPT !.pc = "idle", !.stmtSQL = stmtSQL,
                              !.execs = @ + 1]
       IN  /\ execd' = Append(execd, [db |-> op[c].db, stmt |-> stmtSQL])
           /\ op' = [op EXCEPT ![c] =
                       IF execOk
                       THEN [o EXCEPT !.result = "ok",
                                      !.id = op[c].user \o <<"@">>
                                                \o op[c].host]
                       ELSE [o EXCEPT !.result = "exec error"]]
    /\ UNCHANGED <<orphans, pvars, versionString, versionQueries, ops, now,
                   serverUpAt, dsnOk, ConnectRetryTimeout, cdb, handles,
                   call, ret, exhausted, calls>>

\* SetUserPassword operations, and GetDbConn calls of other handlers
\* between them.
HandlerStep(c) ==
    \/ \E uuidOk \in BOOLEAN : SUP_Begin(c, uuidOk)
    \/ \E queryOk \in BOOLEAN : SUP_Version(c, queryOk)
    \/ \E execOk \in BOOLEAN : SUP_Exec(c, execOk)
    \/ op[c].pc = "idle" /\ GetDbConn_Enter(c)
    \/ GetDbConn_Return(c)

HandlerNext == \E c \in Callers : HandlerStep(c)

HandlerSpec == HandlerInit /\ [][HandlerNext]_vars

\* SetUserPassword operations of one handler, one after the other.
SetUserPassword(c) ==
    \/ \E uuidOk \in BOOLEAN : SUP_Begin(c, uuidOk)
    \/ \E queryOk \in BOOLEAN : SUP_Version(c, queryOk)
    \/ \E execOk \in BOOLEAN : SUP_Exec(c, execOk)

StatementNext == SetUserPassword(1)

StatementSpec == StatementInit /\ [][StatementNext]_vars

\* ---------------------------------------------------------- properties
\* Caller c is inside connectToMySQL's RetryContext.
Establishing(c) == call[c].pc \in {"wait", "grace"}

\* In this step connectToMySQL of caller c returns an error.
ConnectFails(c) == Establishing(c) /\ call'[c].pc = "idle"

\* The handles connectToMySQL has returned (tuned after a successful Ping).
Established == {h \in DOMAIN handles : handles[h].lifetime > 0}

\* The call that returned r was ended by the cancellation of its context.
Cancelled(r) == r.cause \in {"cancel", "abandon"}

\* The call that returned r failed with its timeout elapsed.
Exhausted(r) == r.cause \in {"timeout", "abandon"}

\* C1: concurrent first-time GetDbConn calls perform one establishment,
\* the other callers waiting for it, and all receive the same handle: at
\* most one caller is inside connectToMySQL at a time, and any two calls
\* that returned a handle returned the same one.
C1_EstablishOnce ==
    /\ Cardinality({c \in Callers : Establishing(c)}) <= 1
    /\ \A c, d \in Callers :
          ret[c].cause = "ok" /\ ret[d].cause = "ok" => ret[c].db = ret[d].db

\* C2: at most one handle that was opened and not closed exists, counting
\* the handles of every retry attempt and of every caller.
C2_OneLiveHandle == Cardinality(LiveHandles) <= 1

\* C3: Failed is terminal: once an establishment has failed on its retry
\* budget, no attempt (sql.Open, Ping) is started any more and every
\* GetDbConn call that returns returns an error.
C3_FailedTerminal ==
    [][exhausted =>
         \A c \in Callers :
            /\ call'[c].attempts <= call[c].attempts
            /\ (ret'[c] # ret[c] /\ ret'[c].cause # "none"
                  => ret'[c].err # NoErr)]_vars

\* C4: Open is terminal: once the db field holds a handle it holds that
\* handle in every later state.
C4_OpenTerminal == [][cdb # Nil => cdb' = cdb]_vars

\* C5: a GetDbConn call that starts with a handle cached returns that
\* handle with a nil error and makes no sql.Open, Ping or pool-tuning
\* call, so that at most one establishment ever succeeds.
C5_IdempotentAfterSuccess ==
    [][/\ \A c \in Callers :
             call[c].pc = "ret" /\ call[c].cached # Nil /\ call'[c].pc = "idle"
                => /\ ret'[c].db = call[c].cached
                   /\ ret'[c].err = NoErr
                   /\ call[c].ops = 0
       /\ Cardinality(Established') <= 1]_vars

\* C6: the error of an establishment aborted, while it was retrying, by
\* the cancellation of its context can be told from the error of one
\* that exhausted its timeout.
C6_CancelDistinct ==
    \A c, d \in Callers :
       ret[c].cause = "cancel" /\ ret[d].cause = "timeout"
          => Text(ret[c].err) # Text(ret[d].err)

\* C7: connectToMySQL returns an error only when its budget has elapsed
\* or its context was cancelled, never because one attempt failed.
C7_RetriedUntilBudget ==
    [][\A c \in Callers :
          ConnectFails(c) =>
             \/ now >= Deadline(call[c].start)
             \/ Cancelled(ret'[c])]_vars

\* A failed attempt has been retried within the budget.
C7_Witness ==
    \E c \in Callers :
       /\ Establishing(c)
       /\ call[c].completed >= 1
       /\ call[c].attempts >= 2
       /\ call[c].resultErr # NoErr
       /\ now < Deadline(call[c].start)

\* C8: with a server that never becomes reachable, an establishment ends:
\* GetDbConn returns a nil handle and an error.
C8_Terminates ==
    \A c \in Callers :
       (serverUpAt = Never /\ Establishing(c))
          ~> (call[c].pc = "idle" /\ ret[c].err # NoErr /\ ret[c].db = Nil)

\* The budget was exhausted against a server that never answers.
C8_Witness ==
    /\ serverUpAt = Never
    /\ \E c \in Callers :
          /\ Exhausted(ret[c])
          /\ ret[c].db = Nil
          /\ ret[c].err # NoErr

\* C9: an establishment one of whose attempts succeeds (its Open and its
\* Ping return nil) before the budget has elapsed returns a handle and a
\* nil error from GetDbConn, whatever attempts failed before it, unless
\* its context is cancelled.
C9_ReachableAtAttempt ==
    \A c \in Callers :
       call[c].probedUp
          ~> /\ call[c].pc = "idle"
             /\ \/ Cancelled(ret[c])
                \/ ret[c].cause = "ok" /\ ret[c].err = NoErr /\ ret[c].db # Nil

\* An establishment succeeded after an earlier attempt of it had failed.
C9_Witness ==
    \E c \in Callers :
       /\ call[c].pc = "assign"
       /\ call[c].attempts >= 2
       /\ call[c].db \in Established

\* C10: the error of an establishment that made an attempt and exhausted
\* its timeout carries the failure of the last attempt made (an Open or a
\* Ping error of that very attempt), never that of an earlier attempt and
\* never the bare timeout.
C10_WrapsLastAttempt ==
    [][\A c \in Callers :
          /\ ConnectFails(c)
          /\ ret'[c].cause = "timeout"
          /\ call[c].attempts >= 1
          => /\ ret'[c].err.kind \in {"open", "ping"}
             /\ ret'[c].err.attempt = call[c].attempts]_vars

\* The handles a GetDbConn call shares with its caller or with other
\* callers: the one held for line 44, the cached one, the returned ones.
Shared ==
    {cdb} \cup {ret[c].db : c \in Callers}
          \cup {call[c].db : c \in {d \in Callers : call[d].pc = "assign"}}

\* C11: SetConnMaxLifetime and SetMaxOpenConns are each called exactly
\* once on every handle GetDbConn caches or returns, after the handle's
\* successful Ping and before it is cached or returned, and on no handle
\* more than once.
C11_TunedOnceBeforeShared ==
    /\ \A h \in DOMAIN handles :
          /\ handles[h].lifetime <= 1
          /\ handles[h].maxOpen <= 1
          /\ handles[h].lifetime + handles[h].maxOpen > 0 => handles[h].pinged
    /\ \A h \in Shared \ {Nil} :
          handles[h].lifetime = 1 /\ handles[h].maxOpen = 1

\* A handle was returned to one caller from the cache after another
\* caller had established it.
C11_Witness ==
    \E c, d \in Callers :
       /\ c # d
       /\ ret[c].cause = "ok" /\ ret[d].cause = "ok"
       /\ ret[c].db = ret[d].db
       /\ ret[c].db[1] = c

\* C20: only verified handles are cached or returned.  The db field and
\* every returned handle is one whose Ping succeeded; a GetDbConn call
\* that returns an error returns a nil handle and, failing, leaves the db
\* field as it was.
C20_OnlyVerifiedShared ==
    [][/\ cdb' # Nil => handles'[cdb'].pinged
       /\ \A c \in Callers :
             /\ ret'[c].err # NoErr => ret'[c].db = Nil
             /\ ret'[c].cause = "ok" =>
                   ret'[c].db # Nil /\ handles'[ret'[c].db].pinged
             /\ ConnectFails(c) => ret'[c].err # NoErr /\ cdb' = cdb]_vars

\* A handle whose Ping failed exists beside the cached handle, and some
\* call has returned an error.
C20_Witness ==
    /\ cdb # Nil
    /\ \E h \in DOMAIN handles : ~handles[h].pinged
    /\ \E c \in Callers : ret[c].err # NoErr

\* The provider block asks for mode m, and the host has configured the
\* provider with it.
ConfiguredWith(m) ==
    meta.state # "none" /\ resourceData.authentication_plugin = m

\* C16: configured for aad_auth with a complete credentials block, the
\* provider has performed exactly one token exchange, and its
\* configuration holds the token the identity service returned as the
\* password, with AllowCleartextPasswords set and AllowNativePasswords
\* not; no later operation changes either.
C16_TokenOnce ==
    /\ ConfiguredWith(aadAuthentication)
    /\ resourceData.aad_authentication.set
    /\ meta.state # "invalid"
    => /\ exchanges = 1
       /\ meta.state = "ok"
       /\ meta.Config.Passwd = IssuedToken
       /\ meta.Config.AllowCleartextPasswords
       /\ ~meta.Config.AllowNativePasswords

\* C17: configured for cleartext or native, the provider has performed no
\* token exchange, its configuration holds the configured password, and
\* exactly the flag of the configured mode is set.
C17_Passthrough ==
    \A m \in {cleartextPasswords, nativePasswords} :
       ConfiguredWith(m)
          => /\ exchanges = 0
             /\ meta.state = "ok" =>
                   /\ meta.Config.Passwd = resourceData.password
                   /\ meta.Config.AllowNativePasswords = (m = nativePasswords)
                   /\ meta.Config.AllowCleartextPasswords
                         = (m = cleartextPasswords)

\* A cleartext configuration with a password, used by a later GetDbConn.
C17_Witness ==
    /\ ConfiguredWith(cleartextPasswords)
    /\ meta.state = "ok"
    /\ resourceData.password = "pw"
    /\ cdb # Nil

\* A proxy override of the form socks5[h]://host:port.
HostPortForm(s) ==
    /\ Len(s) = 5
    /\ s[1] \in {"socks5", "socks5h"}
    /\ s[2] = "://"
    /\ s[3] # ":"
    /\ s[4] = ":"
    /\ s[5] \in {"1080", "3306"}

\* The provider has refused the provider block: no MySQLConfiguration is
\* returned and no dialer is registered.
Refused ==
    /\ meta.state \in {"invalid", "error"}
    /\ meta.Config = NoConfig
    /\ registered = <<>>

\* C18: a proxy override that is not of the form socks5[h]://host:port
\* makes the configuration fail with an error and no MySQLConfiguration,
\* and no dialer is registered.
C18_ProxyFormRequired ==
    meta.state \notin {"none", "panic"} /\ resourceData.proxy # <<>>
                                        /\ ~HostPortForm(resourceData.proxy)
       => Refused

\* The number of version queries run on handle h.
QueriesOn(h) ==
    Cardinality({i \in 1..Len(versionQueries) : versionQueries[i] = h})

\* C12: the version query is executed at most once on a handle, however
\* many SetUserPassword operations share it.
C12_VersionOnce == \A h \in DOMAIN handles : QueriesOn(h) <= 1

\* SetUserPassword has returned that the version could not be determined.
VersionUndetermined(o) ==
    o.result \in {VersionError("query failed"),
                  VersionError("Malformed version")}

\* C13: a SetUserPassword operation whose version query fails or whose
\* version string does not parse returns an error and sends no statement:
\* an operation that ran the query and no statement has returned the
\* error, an operation that returned it has sent nothing, and against a
\* server with a malformed version nothing is ever sent.
C13_NoExecWithoutVersion ==
    /\ \A c \in Callers :
          /\ VersionUndetermined(op[c]) => op[c].execs = 0 /\ op[c].pc = "idle"
          /\ op[c].pc = "idle" /\ op[c].queries = 1 /\ op[c].execs = 0
                => VersionUndetermined(op[c])
          /\ versionString \in MalformedVersions
                => op[c].pc # "exec" /\ op[c].result \notin {"ok", "exec error"}
    /\ Len(execd) + Cardinality({c \in Callers : VersionUndetermined(op[c])})
          <= ops
    /\ versionString \in MalformedVersions => execd = <<>>

\* One operation failed on its version query while another sent its
\* statement.
C13_Witness ==
    /\ \E c \in Callers : op[c].result = VersionError("query failed")
    /\ Len(execd) = 1

\* The two statements, told apart by their first words.
IsLegacy(stmt) == stmt[1] = "SET PASSWORD FOR "
IsModern(stmt) == stmt[1] = "ALTER USER "

\* The version major.minor.patch t is before 5.7.6.
Before576(t) ==
    \/ t[1] < 5
    \/ t[1] = 5 /\ t[2] < 7
    \/ t[1] = 5 /\ t[2] = 7 /\ t[3] < 6

\* C14: against a server of version major.minor.patch, SetUserPassword
\* sends the SET PASSWORD statement exactly when the version is before
\* 5.7.6 and the ALTER USER statement exactly when it is not.
C14_Threshold576 ==
    \A t \in Triples :
       versionString = FormatVersion(t) =>
          \A i \in 1..Len(execd) :
             /\ IsLegacy(execd[i].stmt) <=> Before576(t)
             /\ IsModern(execd[i].stmt) <=> ~Before576(t)

\* ALTER USER was sent to a server of version 5.7.6.
C14_Witness ==
    /\ versionString = FormatVersion(<<5, 7, 6>>)
    /\ execd # <<>>
    /\ IsModern(execd[1].stmt)

\* A statement read as the server reads it, from part i on: a quote opens
\* a string literal, a doubled quote inside a literal stands for a quote,
\* any other quote closes the literal.  skel is the statement with "?"
\* for each literal, lits the values of the literals, open whether a
\* literal is unclosed at the end.
RECURSIVE Scan(_, _, _, _)
Scan(stmt, i, inLit, acc) ==
    IF i > Len(stmt) THEN [acc EXCEPT !.open = inLit]
    ELSE IF ~inLit
    THEN IF stmt[i] = "'"
         THEN Scan(stmt, i + 1, TRUE,
                   [acc EXCEPT !.skel = Append(@, "?"),
                               !.lits = Append(@, <<>>)])
         ELSE Scan(stmt, i + 1, FALSE, [acc EXCEPT !.skel = Append(@, stmt[i])])
    ELSE IF stmt[i] = "'" /\ i < Len(stmt) /\ stmt[i + 1] = "'"
    THEN Scan(stmt, i + 2, TRUE,
              [acc EXCEPT !.lits[Len(acc.lits)] = Append(@, "'")])
    ELSE IF stmt[i] = "'"
    THEN Scan(stmt, i + 1, FALSE, acc)
    ELSE Scan(stmt, i + 1, TRUE,
              [acc EXCEPT !.lits[Len(acc.lits)] = Append(@, stmt[i])])

\* stmt has the shape of one of the two templates, with user, host and
\* password as the values of its three literals.
KeepsShape(stmt, user, host, password) ==
    LET r == Scan(stmt, 1, FALSE,
                  [skel |-> <<>>, lits |-> <<>>, open |-> FALSE])
    IN  /\ ~r.open
        /\ r.lits = <<user, host, password>>
        /\ r.skel \in {<<"SET PASSWORD FOR ", "?", "@", "?", " = PASSWORD(",
                        "?", ")">>,
                      <<"ALTER USER ", "?", "@", "?", " IDENTIFIED BY ", "?">>}

\* C15: every statement SetUserPassword sends keeps the shape of its
\* template, whatever quote characters the user name and host contain:
\* read back, its three literals are the user, the host and the password.
C15_QuotesEscaped ==
    \A i \in 1..Len(execd) :
       \E u \in Uuids :
          KeepsShape(execd[i].stmt, op[1].user, op[1].host, u)

\* SetUserPassword of caller c returns an error in this step, after its
\* GetDbConn call.
HandlerFails(c) ==
    /\ op[c].pc \in {"version", "exec"}
    /\ op'[c].pc = "idle"
    /\ op'[c].result # "ok"

\* Some SetUserPassword operation has failed on the Open connection.
SomeFailed ==
    \E c \in Callers :
       VersionUndetermined(op[c]) \/ op[c].result = "exec error"

\* C19: a SetUserPassword operation that fails on its version query, on
\* the version string or on db.Exec leaves the cached handle, the handles
\* and the configuration as they were, and a GetDbConn call after such a
\* failure returns the cached handle without sql.Open, Ping or tuning.
C19_FailureLeavesConnection ==
    [][\A c \in Callers :
          /\ HandlerFails(c)
                => /\ cdb' = cdb /\ cdb # Nil
                   /\ handles' = handles
                   /\ meta' = meta
                   /\ ConnectRetryTimeout' = ConnectRetryTimeout
                   /\ registered' = registered
          /\ SomeFailed /\ call[c].pc = "idle" /\ call'[c].pc # "idle"
                => call'[c].pc = "ret" /\ call'[c].cached = OpenHandle
          /\ SomeFailed /\ call[c].pc = "ret" /\ call'[c].pc = "idle"
                => /\ ret'[c] = [cause |-> "ok", db |-> OpenHandle,
                                 err |-> NoErr]
                   /\ call[c].ops = 0
                   /\ handles' = handles]_vars

\* After the db.Exec of one handler failed, a GetDbConn call has found
\* the handle cached and is about to return it.
C19_Witness ==
    /\ \E c \in Callers : op[c].result = "exec error"
    /\ \E c \in Callers : call[c].pc = "ret" /\ call[c].cached = OpenHandle
====
